---- MODULE Spec2Model ----
(***************************************************************************)
(* Model of scripts/pdf_to_png.py: input discovery, the per-file loop of   *)
(* main and convert_pdf_to_png with its scoped temporary directory.        *)
(* File names are sequences of characters, paths are sequences of names.   *)
(***************************************************************************)
EXTENDS Integers, Sequences, FiniteSets, TLC

\* ---------------------------------------------------------------- bounds
MaxArgs == 2

\* ------------------------------------------------------ names and paths
\* Characters in code point order (str comparison used by sorted()).
CodePoints == <<".", "B", "D", "F", "P", "a", "b", "d", "e", "f", "g",
                "n", "o", "p", "s", "t", "u", "x", "y">>

Ord(c) == CHOOSE k \in 1..Len(CodePoints) : CodePoints[k] = c

\* str.lower() on one character
LowerChar(c) ==
    CASE c = "B" -> "b"
      [] c = "D" -> "d"
      [] c = "F" -> "f"
      [] c = "P" -> "p"
      [] OTHER -> c

Lower(s) == [k \in 1..Len(s) |-> LowerChar(s[k])]

\* str.rfind("."), 1-based, 0 when there is no dot
LastDot(s) ==
    IF \E k \in 1..Len(s) : s[k] = "."
    THEN CHOOSE k \in 1..Len(s) : s[k] = "." /\ \A m \in (k+1)..Len(s) : s[m] # "."
    ELSE 0

\* PurePath.suffix: the last dot must be neither first nor last character
Suffix(s) ==
    IF LastDot(s) > 1 /\ LastDot(s) < Len(s)
    THEN SubSeq(s, LastDot(s), Len(s))
    ELSE <<>>

\* PurePath.stem
Stem(s) ==
    IF LastDot(s) > 1 /\ LastDot(s) < Len(s)
    THEN SubSeq(s, 1, LastDot(s) - 1)
    ELSE s

DotPdf == <<".", "p", "d", "f">>
DotPng == <<".", "p", "n", "g">>

\* PurePath.name and PurePath.parent
Name(p) == p[Len(p)]
Parent(p) == SubSeq(p, 1, Len(p) - 1)

\* str < str, by code points
RECURSIVE StrLess(_, _)
StrLess(s, t) ==
    IF t = <<>> THEN FALSE
    ELSE IF s = <<>> THEN TRUE
    ELSE IF s[1] = t[1] THEN StrLess(Tail(s), Tail(t))
    ELSE Ord(s[1]) < Ord(t[1])

\* PosixPath < PosixPath: compares the lists of parts, case-sensitively
RECURSIVE PathLess(_, _)
PathLess(p, q) ==
    IF q = <<>> THEN FALSE
    ELSE IF p = <<>> THEN TRUE
    ELSE IF p[1] = q[1] THEN PathLess(Tail(p), Tail(q))
    ELSE StrLess(p[1], q[1])

\* sorted(..., reverse=True)
RECURSIVE Sorted_Reversed(_)
Sorted_Reversed(S) ==
    IF S = {} THEN <<>>
    ELSE LET m == CHOOSE x \in S : \A y \in S \ {x} : PathLess(y, x)
         IN <<m>> \o Sorted_Reversed(S \ {m})

\* sorted(iterable of paths)
RECURSIVE Sorted(_)
Sorted(S) ==
    IF S = {} THEN <<>>
    ELSE LET m == CHOOSE x \in S : \A y \in S \ {x} : PathLess(x, y)
         IN <<m>> \o Sorted(S \ {m})

\* fnmatch of the pattern "*.pdf" against a name (POSIX: case-sensitive)
MatchesStarPdf(s) ==
    Len(s) >= 4 /\ SubSeq(s, Len(s) - 3, Len(s)) = DotPdf

\* ------------------------------------------------------ the file system
dF     == <<"F">>
dY     == <<"y">>
dSub   == <<"s", "u", "b">>
dOut   == <<"o", "u", "t">>
dPng   == <<"p", "n", "g">>
a_pdf  == <<"a", ".", "p", "d", "f">>
a_PDF  == <<"a", ".", "P", "D", "F">>
b_PDF  == <<"b", ".", "P", "D", "F">>
B_pdf  == <<"B", ".", "p", "d", "f">>
b_pdf  == <<"b", ".", "p", "d", "f">>
n_txt  == <<"n", ".", "t", "x", "t">>

\* What directory F may hold next to n.txt and sub/
Layouts == {{}, {a_pdf}, {a_pdf, b_PDF}, {a_pdf, b_PDF, B_pdf}}

\* Directories present before the run ("" is the working directory)
InitDirs == {<<>>, dF, <<dF, dSub>>, dY}

\* Regular files present before the run, given the chosen content of F
InitFiles(layout) ==
    {<<dF, n>> : n \in layout}
        \cup {<<dF, n_txt>>, <<dF, dSub, b_pdf>>, <<dY, a_pdf>>, <<dY, a_PDF>>, <<n_txt>>}

\* Command-line inputs
ArgChoices == {<<dF>>, <<dF, a_pdf>>, <<dY, a_pdf>>, <<dY, a_PDF>>, <<n_txt>>}

\* -o/--output-dir: absent, a directory to be created, or an existing file
NoOutputDir == [given |-> FALSE, path |-> <<>>]
OutputDirChoices ==
    {NoOutputDir,
     [given |-> TRUE, path |-> <<dOut, dPng>>],
     [given |-> TRUE, path |-> <<n_txt>>]}

RECURSIVE SeqsUpTo(_, _)
SeqsUpTo(S, n) ==
    IF n = 0 THEN {<<>>}
    ELSE LET R == SeqsUpTo(S, n - 1)
         IN R \cup {Append(r, x) : r \in {q \in R : Len(q) = n - 1}, x \in S}

\* ---------------------------------------------------------------- state
VARIABLES
    args,        \* args.inputs
    output_dir,  \* args.output_dir
    layout,      \* names placed in directory F before the run
    dirs,        \* existing directories
    files,       \* existing regular files: path -> content
    tmpdirs,     \* existing temporary directories: id -> names inside
    tmpCount,    \* temporary directories created so far
    tmpdir,      \* the temporary directory of the running convert_pdf_to_png
    pdf_files,   \* main's list of collected PDF paths
    found,       \* found[k]: what input k added to pdf_files
    argi,        \* next input of the collecting loop
    i,           \* position of the conversion loop in pdf_files
    pc,          \* control point of main
    out,         \* lines printed so far
    calls,       \* file system operations and external commands so far
    results,     \* per started file: how convert_pdf_to_png ended
    exitcode,    \* process exit status once pc = "exit"
    raised       \* an uncaught exception ended the run

vars == <<args, output_dir, layout, dirs, files, tmpdirs, tmpCount, tmpdir,
          pdf_files, found, argi, i, pc, out, calls, results, exitcode, raised>>

Line(kind, text, n, dims) == [kind |-> kind, text |-> text, n |-> n, dims |-> dims]
Call(op, idx, path, tmp) == [op |-> op, idx |-> idx, path |-> path, tmp |-> tmp]
Result(status, path, stderr) == [status |-> status, path |-> path, stderr |-> stderr]

Src == [kind |-> "src", idx |-> 0]
Png(idx) == [kind |-> "png", idx |-> idx]

\* Path.is_dir() / Path.is_file()
IsDir(p) == p \in dirs
IsFile(p) == p \in DOMAIN files

\* Path.glob("*.pdf"): direct children of p whose name matches, of any kind
Glob(p) ==
    {q \in dirs \cup DOMAIN files :
        Len(q) = Len(p) + 1 /\ Parent(q) = p /\ MatchesStarPdf(Name(q))}

\* the suffix test without p.is_file()
IsPdfFile_AnyPath(p) == Lower(Suffix(Name(p))) = DotPdf

\* p.is_file() and p.suffix.lower() == ".pdf"
IsPdfFile(p) == IsFile(p) /\ Lower(Suffix(Name(p))) = DotPdf

\* the -o option ignored
OutDir_AlwaysParent(pdf) == Parent(pdf)

\* Path(args.output_dir) if args.output_dir else pdf.parent
OutDir(pdf) == IF output_dir.given THEN output_dir.path ELSE Parent(pdf)

\* output_dir / f"{pdf_path.name}.png"
OutputPath_FullName(pdf, dir) == Append(dir, Name(pdf) \o DotPng)

\* output_dir / f"{pdf_path.stem}.png"
OutputPath(pdf, dir) == Append(dir, Stem(Name(pdf)) \o DotPng)

\* the name qlmanage gives its thumbnail: f"{pdf_path.name}.png"
TmpPngName(pdf) == Name(pdf) \o DotPng

Prefixes(p) == {SubSeq(p, 1, k) : k \in 0..Len(p)}

\* Path.mkdir(parents=True, exist_ok=True) raises when the path or one of
\* its parents exists and is not a directory
MkdirRaises(p) == \E q \in Prefixes(p) : IsFile(q)
Mkdir(p) == dirs \cup Prefixes(p)

\* a temporary directory that is never removed (tempfile.mkdtemp)
ExitTmp_Leaks(t) == tmpdirs

\* TemporaryDirectory.__exit__: the directory and its content are removed
ExitTmp(t) == [d \in DOMAIN tmpdirs \ {t} |-> tmpdirs[d]]

\* str.strip()
IsSpace(c) == c \in {" ", "\n"}
RECURSIVE LStrip(_)
LStrip(s) == IF s # <<>> /\ IsSpace(s[1]) THEN LStrip(Tail(s)) ELSE s
RECURSIVE RStrip(_)
RStrip(s) ==
    IF s # <<>> /\ IsSpace(s[Len(s)]) THEN RStrip(SubSeq(s, 1, Len(s) - 1)) ELSE s
Strip(s) == RStrip(LStrip(s))

\* what qlmanage may write to stderr when it fails
StderrTexts == {<<"\n", "e", "r", "r", "\n">>}

\* what sips may print: nothing usable, or the path and the two properties
SipsLine(prop, text) == [prop |-> prop, text |-> text]
SipsOutputs ==
    {<<>>,
     <<SipsLine("", "/png"), SipsLine("pixelWidth", "pixelWidth: 2400"),
       SipsLine("pixelHeight", "pixelHeight: 1800")>>}

\* the loop over sips_out.stdout.splitlines()
Dims(stdout) ==
    LET keep == SelectSeq(stdout, LAMBDA l : l.prop \in {"pixelWidth", "pixelHeight"})
    IN [k \in 1..Len(keep) |-> keep[k].text]

\* ----------------------------------------------------------------- Init
Init ==
    /\ args \in {a \in SeqsUpTo(ArgChoices, MaxArgs) : Len(a) >= 1}
    /\ output_dir \in OutputDirChoices
    /\ layout \in Layouts
    /\ dirs = InitDirs
    /\ files = [p \in InitFiles(layout) |-> Src]
    /\ tmpdirs = <<>>
    /\ tmpCount = 0
    /\ tmpdir = 0
    /\ pdf_files = <<>>
    /\ found = <<>>
    /\ argi = 1
    /\ i = 1
    /\ pc = "collect"
    /\ out = <<>>
    /\ calls = <<>>
    /\ results = <<>>
    /\ exitcode = 0
    /\ raised = FALSE

\* -------------------------------------------------------------- actions
\* what one input adds to pdf_files (the three branches of the loop body)
Collected(p) ==
    IF IsDir(p) THEN Sorted(Glob(p))
    ELSE IF IsPdfFile(p) THEN <<p>>
    ELSE <<>>

Skipped(p) == ~IsDir(p) /\ ~IsPdfFile(p)

\* for inp in args.inputs: ...
CollectInput ==
    /\ pc = "collect"
    /\ argi <= Len(args)
    /\ LET p == args[argi] IN
        /\ pdf_files' = pdf_files \o Collected(p)
        /\ found' = Append(found, Collected(p))
        /\ out' = IF Skipped(p) THEN Append(out, Line("skip", p, 0, <<>>)) ELSE out
    /\ argi' = argi + 1
    /\ UNCHANGED <<args, output_dir, layout, dirs, files, tmpdirs, tmpCount, tmpdir,
                   i, pc, calls, results, exitcode, raised>>

\* the message without sys.exit(1)
NoPdfFiles_Continues ==
    /\ pc = "collect"
    /\ argi > Len(args)
    /\ pdf_files = <<>>
    /\ out' = Append(out, Line("nofound", <<>>, 0, <<>>))
    /\ pc' = "loop"
    /\ UNCHANGED <<args, output_dir, layout, dirs, files, tmpdirs, tmpCount, tmpdir,
                   pdf_files, found, argi, i, calls, results, exitcode, raised>>

\* if not pdf_files: print("No PDF files found."); sys.exit(1)
NoPdfFiles ==
    /\ pc = "collect"
    /\ argi > Len(args)
    /\ pdf_files = <<>>
    /\ out' = Append(out, Line("nofound", <<>>, 0, <<>>))
    /\ exitcode' = 1
    /\ pc' = "exit"
    /\ UNCHANGED <<args, output_dir, layout, dirs, files, tmpdirs, tmpCount, tmpdir,
                   pdf_files, found, argi, i, calls, results, raised>>

\* print(f"Found {len(pdf_files)} PDF(s) to convert ...")
FoundPdfFiles ==
    /\ pc = "collect"
    /\ argi > Len(args)
    /\ pdf_files # <<>>
    /\ out' = Append(out, Line("found", <<>>, Len(pdf_files), <<>>))
    /\ pc' = "loop"
    /\ UNCHANGED <<args, output_dir, layout, dirs, files, tmpdirs, tmpCount, tmpdir,
                   pdf_files, found, argi, i, calls, results, exitcode, raised>>

\* out_dir.mkdir(...) raises: the exception leaves main uncaught
MkdirFails ==
    /\ pc = "loop"
    /\ i <= Len(pdf_files)
    /\ MkdirRaises(OutDir(pdf_files[i]))
    /\ calls' = Append(calls, Call("mkdir", i, OutDir(pdf_files[i]), 0))
    /\ raised' = TRUE
    /\ exitcode' = 1
    /\ pc' = "exit"
    /\ UNCHANGED <<args, output_dir, layout, dirs, files, tmpdirs, tmpCount, tmpdir,
                   pdf_files, found, argi, i, out, results>>

\* loop head: mkdir, progress line, call of convert_pdf_to_png, which
\* enters its TemporaryDirectory
StartFile ==
    /\ pc = "loop"
    /\ i <= Len(pdf_files)
    /\ ~MkdirRaises(OutDir(pdf_files[i]))
    /\ dirs' = Mkdir(OutDir(pdf_files[i]))
    /\ out' = Append(out, Line("progress", Name(pdf_files[i]), 0, <<>>))
    /\ tmpCount' = tmpCount + 1
    /\ tmpdir' = tmpCount + 1
    /\ tmpdirs' = [d \in DOMAIN tmpdirs \cup {tmpCount + 1} |->
                      IF d = tmpCount + 1 THEN {} ELSE tmpdirs[d]]
    /\ calls' = calls \o <<Call("mkdir", i, OutDir(pdf_files[i]), 0),
                           Call("convert", i, pdf_files[i], 0),
                           Call("mkdtemp", i, <<>>, tmpCount + 1)>>
    /\ pc' = "render"
    /\ UNCHANGED <<args, output_dir, layout, files, pdf_files, found, argi, i,
                   results, exitcode, raised>>

\* qlmanage exits non-zero: two error lines, then sys.exit(1)
RenderNonZero_Aborts ==
    /\ pc = "render"
    /\ \E err \in StderrTexts :
        /\ out' = out \o <<Line("error_qlmanage", Name(pdf_files[i]), 0, <<>>),
                           Line("stderr", Strip(err), 0, <<>>)>>
        /\ results' = Append(results, Result("nonzero", <<>>, err))
    /\ calls' = calls \o <<Call("qlmanage", i, pdf_files[i], tmpdir),
                           Call("rmtree", i, <<>>, tmpdir)>>
    /\ tmpdirs' = ExitTmp(tmpdir)
    /\ tmpdir' = 0
    /\ i' = i + 1
    /\ exitcode' = 1
    /\ pc' = "exit"
    /\ UNCHANGED <<args, output_dir, layout, dirs, files, tmpCount, pdf_files, found,
                   argi, raised>>

\* qlmanage exits non-zero: two error lines, return None, next file
RenderNonZero ==
    /\ pc = "render"
    /\ \E err \in StderrTexts :
        /\ out' = out \o <<Line("error_qlmanage", Name(pdf_files[i]), 0, <<>>),
                           Line("stderr", Strip(err), 0, <<>>)>>
        /\ results' = Append(results, Result("nonzero", <<>>, err))
    /\ calls' = calls \o <<Call("qlmanage", i, pdf_files[i], tmpdir),
                           Call("rmtree", i, <<>>, tmpdir)>>
    /\ tmpdirs' = ExitTmp(tmpdir)
    /\ tmpdir' = 0
    /\ i' = i + 1
    /\ pc' = "loop"
    /\ UNCHANGED <<args, output_dir, layout, dirs, files, tmpCount, pdf_files, found,
                   argi, exitcode, raised>>

\* qlmanage exits zero, having written its thumbnail or not
RenderZero ==
    /\ pc = "render"
    /\ \E written \in {{}, {TmpPngName(pdf_files[i])}} :
        tmpdirs' = [tmpdirs EXCEPT ![tmpdir] = written]
    /\ calls' = Append(calls, Call("qlmanage", i, pdf_files[i], tmpdir))
    /\ pc' = "placed"
    /\ UNCHANGED <<args, output_dir, layout, dirs, files, tmpCount, tmpdir, pdf_files,
                   found, argi, i, out, results, exitcode, raised>>

\* if not tmp_png.exists(): error line, return None, next file
OutputMissing ==
    /\ pc = "placed"
    /\ TmpPngName(pdf_files[i]) \notin tmpdirs[tmpdir]
    /\ out' = Append(out, Line("error_missing", TmpPngName(pdf_files[i]), tmpdir, <<>>))
    /\ results' = Append(results, Result("missing", <<>>, <<>>))
    /\ calls' = Append(calls, Call("rmtree", i, <<>>, tmpdir))
    /\ tmpdirs' = ExitTmp(tmpdir)
    /\ tmpdir' = 0
    /\ i' = i + 1
    /\ pc' = "loop"
    /\ UNCHANGED <<args, output_dir, layout, dirs, files, tmpCount, pdf_files, found,
                   argi, exitcode, raised>>

\* shutil.move(tmp_png, output_path); return output_path
MoveOutput ==
    /\ pc = "placed"
    /\ TmpPngName(pdf_files[i]) \in tmpdirs[tmpdir]
    /\ LET output_path == OutputPath(pdf_files[i], OutDir(pdf_files[i])) IN
        /\ files' = [p \in DOMAIN files \cup {output_path} |->
                        IF p = output_path THEN Png(i) ELSE files[p]]
        /\ results' = Append(results, Result("ok", output_path, <<>>))
        /\ calls' = calls \o <<Call("move", i, output_path, tmpdir),
                               Call("rmtree", i, <<>>, tmpdir)>>
    /\ tmpdirs' = ExitTmp(tmpdir)
    /\ tmpdir' = 0
    /\ pc' = "probe"
    /\ UNCHANGED <<args, output_dir, layout, dirs, tmpCount, pdf_files, found, argi, i,
                   out, exitcode, raised>>

\* shutil.move raises OSError (destination not writable, device full): the
\* with block removes the temporary directory, nothing catches the exception
MoveRaises ==
    /\ pc = "placed"
    /\ TmpPngName(pdf_files[i]) \in tmpdirs[tmpdir]
    /\ results' = Append(results, Result("raised", <<>>, <<>>))
    /\ calls' = calls \o
          <<Call("move", i, OutputPath(pdf_files[i], OutDir(pdf_files[i])), tmpdir),
            Call("rmtree", i, <<>>, tmpdir)>>
    /\ tmpdirs' = ExitTmp(tmpdir)
    /\ tmpdir' = 0
    /\ raised' = TRUE
    /\ exitcode' = 1
    /\ pc' = "exit"
    /\ UNCHANGED <<args, output_dir, layout, dirs, files, tmpCount, pdf_files, found,
                   argi, i, out>>

\* if result: sips, dims, rest of the progress line
Probe ==
    /\ pc = "probe"
    /\ \E stdout \in SipsOutputs :
        out' = Append(out, Line("report", Name(results[i].path), 0, Dims(stdout)))
    /\ calls' = Append(calls, Call("sips", i, results[i].path, 0))
    /\ i' = i + 1
    /\ pc' = "loop"
    /\ UNCHANGED <<args, output_dir, layout, dirs, files, tmpdirs, tmpCount, tmpdir,
                   pdf_files, found, argi, results, exitcode, raised>>

\* print("\nDone.") and normal end of main
Finish ==
    /\ pc = "loop"
    /\ i > Len(pdf_files)
    /\ out' = Append(out, Line("done", <<>>, 0, <<>>))
    /\ exitcode' = 0
    /\ pc' = "exit"
    /\ UNCHANGED <<args, output_dir, layout, dirs, files, tmpdirs, tmpCount, tmpdir,
                   pdf_files, found, argi, i, calls, results, raised>>

Next ==
    \/ CollectInput
    \/ NoPdfFiles
    \/ FoundPdfFiles
    \/ MkdirFails
    \/ StartFile
    \/ RenderNonZero
    \/ RenderZero
    \/ OutputMissing
    \/ MoveOutput
    \/ MoveRaises
    \/ Probe
    \/ Finish

Spec == Init /\ [][Next]_vars

TypeOK ==
    /\ pc \in {"collect", "loop", "render", "placed", "probe", "exit"}
    /\ i \in 1..(Len(pdf_files) + 1)
    /\ Len(results) \in {i - 1, i}

\* ------------------------------------------------- vocabulary of the claims
Printed(kind) == SelectSeq(out, LAMBDA l : l.kind = kind)
CallsOf(op) == SelectSeq(calls, LAMBDA c : c.op = op)
Range(s) == {s[k] : k \in 1..Len(s)}

RECURSIVE Flatten(_)
Flatten(ss) == IF ss = <<>> THEN <<>> ELSE Head(ss) \o Flatten(Tail(ss))

\* a name ends in ".pdf", whatever the case of its letters
EndsInPdf(n) == Len(n) >= 4 /\ Lower(SubSeq(n, Len(n) - 3, Len(n))) = DotPdf

\* the source filename without its ".pdf" extension
WithoutPdf(n) == SubSeq(n, 1, Len(n) - 4)

\* where the PNG of pdf_files[j] belongs: -o for every file, else its own directory
ExpectedDir(j) ==
    IF output_dir.given THEN output_dir.path
    ELSE SubSeq(pdf_files[j], 1, Len(pdf_files[j]) - 1)

ExpectedPath(j) == Append(ExpectedDir(j), WithoutPdf(Name(pdf_files[j])) \o DotPng)

Existed(p) == p \in InitDirs \/ p \in InitFiles(layout)

\* position in out of the j-th progress line
ProgressPos(j) ==
    CHOOSE n \in 1..Len(out) :
        /\ out[n].kind = "progress"
        /\ Cardinality({m \in 1..n : out[m].kind = "progress"}) = j

NonSpace(s) == SelectSeq(s, LAMBDA c : c \notin {" ", "\n"})

OkJobs == {j \in 1..Len(results) : results[j].status = "ok"}
FailedJobs == {j \in 1..Len(results) : results[j].status \in {"nonzero", "missing"}}

\* ---------------------------------------------------------------- claims

\* C1: in every run that discovers at least one PDF, main calls
\* convert_pdf_to_png exactly once and prints exactly one progress line for
\* each element of the discovered sequence, duplicates included.
C1_OneAttemptPerPdf ==
    (pc = "exit" /\ pdf_files # <<>>) =>
        /\ Len(CallsOf("convert")) = Len(pdf_files)
        /\ Len(Printed("progress")) = Len(pdf_files)
        /\ \A j \in 1..Len(pdf_files) :
            /\ CallsOf("convert")[j].path = pdf_files[j]
            /\ Printed("progress")[j].text = Name(pdf_files[j])

\* C2: when no PDF is discovered the run prints the "no PDF files found"
\* message and exits non-zero, having invoked no command and created no
\* directory.
C2_NothingFound ==
    /\ (pc # "collect" /\ pdf_files = <<>>) =>
        /\ pc = "exit"
        /\ exitcode # 0
        /\ out[Len(out)].kind = "nofound"
        /\ Printed("done") = <<>>
    /\ (argi > Len(args) /\ pdf_files = <<>>) =>
        /\ calls = <<>>
        /\ dirs = InitDirs
        /\ tmpCount = 0
        /\ DOMAIN files = InitFiles(layout)

C2_Witness ==
    /\ pc = "exit"
    /\ pdf_files = <<>>
    /\ Len(args) = 2
    /\ Len(Printed("skip")) >= 1
    /\ found = <<<<>>, <<>>>>

C5_OutputPath ==
    /\ \A j \in OkJobs :
        /\ results[j].path = ExpectedPath(j)
        /\ ExpectedPath(j) \in DOMAIN files
        /\ files[ExpectedPath(j)].kind = "png"
        /\ \A k \in OkJobs : pdf_files[k] = pdf_files[j] => results[k].path = results[j].path
    /\ \A c \in Range(calls) :
        c.op \in {"convert", "move"} =>
            \A k \in 0..Len(ExpectedDir(c.idx)) : SubSeq(ExpectedDir(c.idx), 1, k) \in dirs

C5_Witness ==
    /\ pc = "exit"
    /\ output_dir.given
    /\ Cardinality(OkJobs) = 2
    /\ \E j \in OkJobs : pdf_files[j] = <<dY, a_PDF>>
    /\ \E j, k \in OkJobs : j < k /\ pdf_files[j] = pdf_files[k]
    /\ <<dOut, dPng, <<"a", ".", "p", "n", "g">>>> \in DOMAIN files

OpRank(op) ==
    CASE op = "mkdir" -> 1
      [] op = "convert" -> 2
      [] op = "mkdtemp" -> 3
      [] op = "qlmanage" -> 4
      [] op = "move" -> 5
      [] op = "rmtree" -> 6
      [] op = "sips" -> 7

IsSkippable(p) == ~Existed(p) \/ (p \in InitFiles(layout) /\ ~EndsInPdf(Name(p)))

C8_SkippedInput ==
    /\ \A k \in 1..Len(found) :
        IsSkippable(args[k]) =>
            /\ \E l \in Range(out) : l.kind = "skip" /\ l.text = args[k]
            /\ args[k] \notin Range(pdf_files)
            /\ found[k] = <<>>
    /\ Len(Printed("skip")) = Cardinality({k \in 1..Len(found) : IsSkippable(args[k])})
    /\ pc # "collect" => Len(found) = Len(args)

C8_Witness ==
    /\ pc = "exit"
    /\ Len(args) = 2
    /\ args[1] = <<dF, a_pdf>>
    /\ ~Existed(args[1])
    /\ Printed("skip") # <<>>
    /\ found[2] # <<>>
    /\ OkJobs # {}

\* C9: once at least one PDF is discovered the run reaches the completion
\* notice and exits with status zero whatever happens to the single files;
\* the exit status is non-zero only when nothing is discovered.
C9_RunCompletes ==
    pc = "exit" =>
        IF pdf_files = <<>>
        THEN exitcode # 0
        ELSE exitcode = 0 /\ out[Len(out)].kind = "done"

\* C10: PDFs with the same stem and the same resolved output directory are
\* moved to one path and the later overwrites the earlier, so the PNG files
\* produced are as many as the distinct (directory, stem) pairs among the
\* successful conversions.
Produced == {q \in DOMAIN files : files[q].kind = "png"}

C10_SameStemOverwrites ==
    /\ Cardinality(Produced) =
           Cardinality({<<ExpectedDir(j), WithoutPdf(Name(pdf_files[j]))>> : j \in OkJobs})
    /\ Cardinality(Produced) <= Cardinality(OkJobs)
    /\ \A j \in OkJobs :
        LET same == {k \in OkJobs :
                        /\ ExpectedDir(k) = ExpectedDir(j)
                        /\ WithoutPdf(Name(pdf_files[k])) = WithoutPdf(Name(pdf_files[j]))}
        IN /\ results[j].path \in Produced
           /\ files[results[j].path].idx \in same
           /\ \A k \in same : k <= files[results[j].path].idx

C10_Witness ==
    /\ pc = "exit"
    /\ ~output_dir.given
    /\ pdf_files = <<<<dY, a_pdf>>, <<dY, a_PDF>>>>
    /\ OkJobs = {1, 2}
    /\ Cardinality(Produced) = 1

====
